---- MODULE Spec2Model ----
(***************************************************************************)
(* The streaming transcode engine of the cesu8str command line tool:       *)
(* read_write_loop of src/bin/cesu8str.rs.  One run of the loop is one     *)
(* behaviour: the parameters (buf_size, encode, variant) and the whole     *)
(* input stream are fixed by Init, the reader hands the stream over in     *)
(* pieces of its own choosing, and reader and writer may fail.             *)
(*                                                                         *)
(* Bytes are integers 0..255.  Sequences are 1-based, so the Rust slice    *)
(* buf[a..b] is SubSeq(buf, a + 1, b).                                     *)
(***************************************************************************)
EXTENDS Integers, Sequences, FiniteSets, TLC

\* ---------------------------------------------------------------- bounds

\* longest input stream
MaxLen == 4

\* largest buffer capacity (buf_size)
MaxBuf == 4

\* The bytes input streams are made of: an ASCII byte (nul, which the Java
\* variant writes as C0 80), the continuation byte 80, the lead byte C0, the
\* lead byte E1 of a three-byte unit (E1 80 80 is U+1000) and the lead byte F1
\* of a four-byte UTF-8 unit (F1 80 80 80 is U+40000).
Bytes == {0, 128, 192, 225, 241}

Inputs == UNION {[1..n -> Bytes] : n \in 0..MaxLen}

BufSizes == 1..MaxBuf

\* ------------------------------------------------------- program constants

EXITCODE_SUCCESS == 0

EXITCODE_ERROR_IO == 1

EXITCODE_ERROR_ENCODING == 2

\* ret before read_write_loop has returned
NoRet == -1

\* offset field of a diagnostic that prints no offset
NoOff == -1

Min(a, b) == IF a <= b THEN a ELSE b

\* ------------------------------------------------------------ the codecs

IsCont(b) == b >= 128 /\ b <= 191

\* core::str UTF8_CHAR_WIDTH: 0 for a byte that starts no unit
Utf8Width(b) ==
  IF b < 128 THEN 1
  ELSE IF b >= 194 /\ b <= 223 THEN 2
  ELSE IF b >= 224 /\ b <= 239 THEN 3
  ELSE IF b >= 240 /\ b <= 244 THEN 4
  ELSE 0

\* the second byte of a unit, as std's validation restricts it
SecondOk(b0, b1) ==
  IF b0 = 224 THEN b1 >= 160 /\ b1 <= 191
  ELSE IF b0 = 237 THEN b1 >= 128 /\ b1 <= 159
  ELSE IF b0 = 240 THEN b1 >= 144 /\ b1 <= 191
  ELSE IF b0 = 244 THEN b1 >= 128 /\ b1 <= 143
  ELSE IsCont(b1)

UnitOk(w) == [k |-> "ok", len |-> w]

UnitInc == [k |-> "inc", len |-> 0]

UnitBad(el) == [k |-> "bad", len |-> el]

\* std::str::from_utf8 on the unit that starts at s[i]: a whole unit of len
\* bytes, a unit cut by the end of s (error_len None), or a malformed unit
\* (error_len Some(len)).
Utf8Unit(s, i) ==
  LET w == Utf8Width(s[i])
      L == Len(s)
  IN  IF w = 0 THEN UnitBad(1)
      ELSE IF w = 1 THEN UnitOk(1)
      ELSE IF i + 1 > L THEN UnitInc
      ELSE IF ~SecondOk(s[i], s[i + 1]) THEN UnitBad(1)
      ELSE IF w = 2 THEN UnitOk(2)
      ELSE IF i + 2 > L THEN UnitInc
      ELSE IF ~IsCont(s[i + 2]) THEN UnitBad(2)
      ELSE IF w = 3 THEN UnitOk(3)
      ELSE IF i + 3 > L THEN UnitInc
      ELSE IF ~IsCont(s[i + 3]) THEN UnitBad(3)
      ELSE UnitOk(4)

\* the six bytes of a surrogate pair, ED A0..AF xx ED B0..BF xx, from s[i]
RECURSIVE PairFrom(_, _, _)
PairFrom(s, i, k) ==
  IF k = 6 THEN UnitOk(6)
  ELSE IF i + k > Len(s) THEN UnitInc
  ELSE LET b == s[i + k]
           ok == IF k = 0 THEN b = 237
                 ELSE IF k = 1 THEN b >= 160 /\ b <= 175
                 ELSE IF k = 3 THEN b = 237
                 ELSE IF k = 4 THEN b >= 176 /\ b <= 191
                 ELSE IsCont(b)
       IN  IF ok THEN PairFrom(s, i, k + 1) ELSE UnitBad(k)

\* Cesu8Str::try_from_bytes / Mutf8Str::try_from_bytes on the unit at s[i]:
\* the units of UTF-8 of up to three bytes, surrogates only as a pair, no
\* four-byte unit, and C0 80 for nul in the Java variant.
Cesu8Unit(s, i, variant) ==
  LET b0 == s[i]
      L == Len(s)
  IN  IF b0 = 192 /\ variant = "Java"
        THEN (IF i + 1 > L THEN UnitInc
              ELSE IF s[i + 1] = 128 THEN UnitOk(2) ELSE UnitBad(1))
      ELSE IF Utf8Width(b0) = 4 THEN UnitBad(1)
      ELSE IF b0 = 237 /\ i + 1 <= L /\ s[i + 1] >= 160
        THEN (IF s[i + 1] <= 175 THEN PairFrom(s, i, 0) ELSE UnitBad(1))
      ELSE Utf8Unit(s, i)

SourceUnit(s, i, encode, variant) ==
  IF encode THEN Utf8Unit(s, i) ELSE Cesu8Unit(s, i, variant)

\* The classification of a window: Complete, Incomplete(n) or Invalid(n, el),
\* n = valid_up_to() and el = error_len().
RECURSIVE ScanFrom(_, _, _, _)
ScanFrom(s, i, encode, variant) ==
  IF i > Len(s) THEN [kind |-> "Complete", n |-> Len(s), el |-> 0]
  ELSE LET u == SourceUnit(s, i, encode, variant)
       IN  IF u.k = "ok" THEN ScanFrom(s, i + u.len, encode, variant)
           ELSE IF u.k = "inc" THEN [kind |-> "Incomplete", n |-> i - 1, el |-> 0]
           ELSE [kind |-> "Invalid", n |-> i - 1, el |-> u.len]

Classify(s, encode, variant) == ScanFrom(s, 1, encode, variant)

\* one UTF-16 surrogate as a three-byte unit
Enc3(x) == <<224 + (x \div 4096), 128 + ((x \div 64) % 64), 128 + (x % 64)>>

Dec3(u, i) == (u[i] % 16) * 4096 + (u[i + 1] % 64) * 64 + (u[i + 2] % 64)

\* Cesu8Str::from_utf8 / Mutf8Str::from_utf8 on one valid UTF-8 unit
EncodeUnit(u, variant) ==
  IF Len(u) = 1 /\ u[1] = 0 /\ variant = "Java" THEN <<192, 128>>
  ELSE IF Len(u) = 4
    THEN LET cp == (u[1] % 8) * 262144 + (u[2] % 64) * 4096
                     + (u[3] % 64) * 64 + (u[4] % 64)
             c == cp - 65536
         IN  Enc3(55296 + (c \div 1024)) \o Enc3(56320 + (c % 1024))
  ELSE u

\* to_str() on one valid CESU-8 / MUTF-8 unit
DecodeUnit(u, variant) ==
  IF Len(u) = 2 /\ u[1] = 192 /\ variant = "Java" THEN <<0>>
  ELSE IF Len(u) = 6
    THEN LET cp == 65536 + (Dec3(u, 1) - 55296) * 1024 + (Dec3(u, 4) - 56320)
         IN  <<240 + (cp \div 262144), 128 + ((cp \div 4096) % 64),
               128 + ((cp \div 64) % 64), 128 + (cp % 64)>>
  ELSE u

\* The codec transform of a run of whole valid units (it stops at the first
\* unit that is not whole and valid; the loop hands it valid prefixes only).
RECURSIVE TransformFrom(_, _, _, _)
TransformFrom(s, i, encode, variant) ==
  IF i > Len(s) THEN <<>>
  ELSE LET unit == SourceUnit(s, i, encode, variant)
           u == SubSeq(s, i, i + unit.len - 1)
       IN  IF unit.k # "ok" THEN <<>>
           ELSE (IF encode THEN EncodeUnit(u, variant) ELSE DecodeUnit(u, variant))
                  \o TransformFrom(s, i + unit.len, encode, variant)

Transform(s, encode, variant) == TransformFrom(s, 1, encode, variant)

\* ---------------------------------------------------------------- state

VARIABLES
  buf_size,        \* parameter: the buffer capacity
  encode,          \* parameter: TRUE UTF-8 -> CESU-8, FALSE the reverse
  variant,         \* parameter: "Standard" or "Java"
  input,           \* the bytes of the whole input stream
  rpos,            \* how many of them the reader has delivered
  buf,             \* buf_vec: buf_size bytes
  start,
  end,
  absolute_start,
  io_error,
  bad_encoding,
  oinput,          \* "open" (Some) or "closed" (None)
  ooutput,         \* "open" (Some) or "closed" (None)
  data,            \* the output bytes of the current iteration
  out,             \* every byte the output has accepted
  diag,            \* the unconditional eprintln! lines, in order
  ret,             \* the returned status, NoRet before the return
  pc,              \* position in the loop
  in_end,          \* history: how the input handle was closed
  eof_mid_unit     \* history: the input ended with a partial unit in the window

vars == <<buf_size, encode, variant, input, rpos, buf, start, end,
          absolute_start, io_error, bad_encoding, oinput, ooutput, data,
          out, diag, ret, pc, in_end, eof_mid_unit>>

params == <<buf_size, encode, variant, input>>

Window == SubSeq(buf, 1, end)

Init ==
  /\ buf_size \in BufSizes
  /\ encode \in BOOLEAN
  /\ variant \in {"Standard", "Java"}
  /\ input \in Inputs
  \* a literal nul byte in MUTF-8 input is left out: the source does not
  \* decide whether Mutf8Str::try_from_bytes accepts it
  /\ (~encode /\ variant = "Java") => (\A i \in DOMAIN input : input[i] # 0)
  /\ rpos = 0
  /\ buf = [i \in 1..buf_size |-> 0]
  /\ start = 0
  /\ end = 0
  /\ absolute_start = 0
  /\ io_error = FALSE
  /\ bad_encoding = FALSE
  /\ oinput = "open"
  /\ ooutput = "open"
  /\ data = <<>>
  /\ out = <<>>
  /\ diag = <<>>
  /\ ret = NoRet
  /\ pc = "loop"
  /\ in_end = "none"
  /\ eof_mid_unit = FALSE

\* ------------------------------------------------------------ the loop

\* buf.copy_within(start..end, 0)
CopyWithin(b, from, to) ==
  [i \in DOMAIN b |-> IF i <= to - from THEN b[i + from] ELSE b[i]]

\* input.read(&mut buf[end..]) returning Ok(n): the next n bytes of the stream
ReadInto(b, at, n) ==
  [i \in DOMAIN b |-> IF i > at /\ i <= at + n THEN input[rpos + (i - at)] ELSE b[i]]

\* lines 156-157: the input handle is open and the window is at most a
\* quarter of the buffer
CanFill == oinput = "open" /\ end <= buf_size \div 4

\* what one read call can return at most: the free tail, the rest of the stream
ReadMax == Min(buf_size - end, Len(input) - rpos)

\* TakeInput with the handle taken twice: the expect finds None
TakeInput_Twice(why) ==
  /\ oinput' = "closed"
  /\ in_end' = why
  /\ pc' = "panic"

\* oinput.take().expect(..) after a read
TakeInput(why) ==
  /\ oinput' = "closed"
  /\ in_end' = why
  /\ pc' = IF oinput = "open" THEN "transcode" ELSE "panic"

\* LoopHead that resets the indexes without moving the bytes
LoopHead_NoCopy ==
  /\ pc = "loop"
  /\ IF start > end
       THEN /\ pc' = "panic"
            /\ UNCHANGED <<buf, start, end>>
       ELSE /\ buf' = buf
            /\ end' = end - start
            /\ start' = 0
            /\ pc' = IF oinput = "closed" /\ end - start = 0 THEN "result" ELSE "fill"
  /\ data' = <<>>
  /\ UNCHANGED <<params, rpos, absolute_start, io_error, bad_encoding, oinput,
                 ooutput, out, diag, ret, in_end, eof_mid_unit>>

\* lines 138-153: compaction, then the exit test
LoopHead ==
  /\ pc = "loop"
  /\ IF start > end
       THEN /\ pc' = "panic"
            /\ UNCHANGED <<buf, start, end>>
       ELSE /\ buf' = IF start # 0 THEN CopyWithin(buf, start, end) ELSE buf
            /\ end' = end - start
            /\ start' = 0
            /\ pc' = IF oinput = "closed" /\ end - start = 0 THEN "result" ELSE "fill"
  /\ data' = <<>>
  /\ UNCHANGED <<params, rpos, absolute_start, io_error, bad_encoding, oinput,
                 ooutput, out, diag, ret, in_end, eof_mid_unit>>

\* lines 156-157 not taken: no read this iteration
FillSkip ==
  /\ pc = "fill"
  /\ ~CanFill
  /\ pc' = "transcode"
  /\ UNCHANGED <<params, rpos, buf, start, end, absolute_start, io_error,
                 bad_encoding, oinput, ooutput, data, out, diag, ret, in_end,
                 eof_mid_unit>>

\* ReadData that reads over the window instead of after it
ReadData_Overwrite ==
  /\ pc = "fill"
  /\ CanFill
  /\ \E n \in 1..ReadMax :
       /\ buf' = ReadInto(buf, 0, n)
       /\ end' = n
       /\ rpos' = rpos + n
  /\ pc' = "transcode"
  /\ UNCHANGED <<params, start, absolute_start, io_error, bad_encoding, oinput,
                 ooutput, data, out, diag, ret, in_end, eof_mid_unit>>

\* lines 165-169: Ok(n), n > 0
ReadData ==
  /\ pc = "fill"
  /\ CanFill
  /\ \E n \in 1..ReadMax :
       /\ buf' = ReadInto(buf, end, n)
       /\ end' = end + n
       /\ rpos' = rpos + n
  /\ pc' = "transcode"
  /\ UNCHANGED <<params, start, absolute_start, io_error, bad_encoding, oinput,
                 ooutput, data, out, diag, ret, in_end, eof_mid_unit>>

\* lines 162-164: Ok(0)
ReadEof ==
  /\ pc = "fill"
  /\ CanFill
  /\ ReadMax = 0
  /\ TakeInput("eof")
  /\ eof_mid_unit' = (end > 0)
  /\ UNCHANGED <<params, rpos, buf, start, end, absolute_start, io_error,
                 bad_encoding, ooutput, data, out, diag, ret>>

\* ReadBrokenPipe that records an I/O fault
ReadBrokenPipe_AsError ==
  /\ pc = "fill"
  /\ CanFill
  /\ TakeInput("pipe")
  /\ eof_mid_unit' = (end > 0)
  /\ io_error' = TRUE
  /\ UNCHANGED <<params, rpos, buf, start, end, absolute_start,
                 bad_encoding, ooutput, data, out, diag, ret>>

\* lines 170-173: Err, BrokenPipe
ReadBrokenPipe ==
  /\ pc = "fill"
  /\ CanFill
  /\ TakeInput("pipe")
  /\ eof_mid_unit' = (end > 0)
  /\ UNCHANGED <<params, rpos, buf, start, end, absolute_start, io_error,
                 bad_encoding, ooutput, data, out, diag, ret>>

\* ReadError that records the fault and keeps the handle
ReadError_KeepOpen ==
  /\ pc = "fill"
  /\ CanFill
  /\ io_error' = TRUE
  /\ in_end' = "error"
  /\ pc' = "transcode"
  /\ UNCHANGED <<params, rpos, buf, start, end, absolute_start, bad_encoding,
                 oinput, ooutput, data, out, diag, ret, eof_mid_unit>>

\* lines 174-178: any other Err
ReadError ==
  /\ pc = "fill"
  /\ CanFill
  /\ io_error' = TRUE
  /\ TakeInput("error")
  /\ UNCHANGED <<params, rpos, buf, start, end, absolute_start, bad_encoding,
                 ooutput, data, out, diag, ret, eof_mid_unit>>

\* lines 185-218 on &buf[..end]
Verdict == Classify(Window, encode, variant)

\* the bytes produced for the valid prefix
Produced == Transform(SubSeq(buf, 1, Verdict.n), encode, variant)

\* line 184 not taken: nothing in the window
NoData ==
  /\ pc = "transcode"
  /\ end = 0
  /\ pc' = "loop"
  /\ UNCHANGED <<params, rpos, buf, start, end, absolute_start, io_error,
                 bad_encoding, oinput, ooutput, data, out, diag, ret, in_end,
                 eof_mid_unit>>

\* StepComplete with absolute_start assigned instead of advanced
StepComplete_AssignPosition ==
  /\ pc = "transcode"
  /\ end > 0
  /\ Verdict.kind = "Complete"
  /\ data' = Produced
  /\ start' = end
  /\ absolute_start' = end
  /\ pc' = "drain"
  /\ UNCHANGED <<params, rpos, buf, end, io_error, bad_encoding, oinput,
                 ooutput, out, diag, ret, in_end, eof_mid_unit>>

\* lines 225-234
StepComplete ==
  /\ pc = "transcode"
  /\ end > 0
  /\ Verdict.kind = "Complete"
  /\ data' = Produced
  /\ start' = end
  /\ absolute_start' = absolute_start + end
  /\ pc' = "drain"
  /\ UNCHANGED <<params, rpos, buf, end, io_error, bad_encoding, oinput,
                 ooutput, out, diag, ret, in_end, eof_mid_unit>>

Truncated == [kind |-> "truncated", off |-> NoOff, len |-> 0]

\* StepIncomplete without the test for a closed input
StepIncomplete_NoTruncation ==
  /\ pc = "transcode"
  /\ end > 0
  /\ Verdict.kind = "Incomplete"
  /\ data' = Produced
  /\ start' = Verdict.n
  /\ absolute_start' = absolute_start + Verdict.n
  /\ pc' = "drain"
  /\ UNCHANGED <<params, rpos, buf, end, io_error, oinput, ooutput, out, ret,
                 in_end, eof_mid_unit, diag, bad_encoding>>

\* lines 235-253
StepIncomplete ==
  /\ pc = "transcode"
  /\ end > 0
  /\ Verdict.kind = "Incomplete"
  /\ data' = Produced
  /\ start' = Verdict.n
  /\ absolute_start' = absolute_start + Verdict.n
  /\ IF oinput = "closed"
       THEN /\ diag' = Append(diag, Truncated)
            /\ bad_encoding' = TRUE
            /\ pc' = "result"
       ELSE /\ pc' = "drain"
            /\ UNCHANGED <<diag, bad_encoding>>
  /\ UNCHANGED <<params, rpos, buf, end, io_error, oinput, ooutput, out, ret,
                 in_end, eof_mid_unit>>

InvalidDiag == [kind |-> "invalid", off |-> absolute_start + Verdict.n,
                len |-> Verdict.el]

\* StepInvalid that skips the bad unit and goes on with the rest of the window
StepInvalid_SkipUnit ==
  /\ pc = "transcode"
  /\ end > 0
  /\ Verdict.kind = "Invalid"
  /\ data' = Produced
  /\ diag' = Append(diag, InvalidDiag)
  /\ start' = Verdict.n + Verdict.el
  /\ absolute_start' = absolute_start + Verdict.n + Verdict.el
  /\ bad_encoding' = TRUE
  /\ pc' = "drain"
  /\ UNCHANGED <<params, rpos, buf, end, io_error, oinput, in_end, ooutput, out,
                 ret, eof_mid_unit>>

\* StepInvalid that moves start past the bad unit while end is cut before it
StepInvalid_AdvancePast ==
  /\ pc = "transcode"
  /\ end > 0
  /\ Verdict.kind = "Invalid"
  /\ data' = Produced
  /\ diag' = Append(diag, InvalidDiag)
  /\ start' = Verdict.n + Verdict.el
  /\ absolute_start' = absolute_start + Verdict.n + Verdict.el
  /\ end' = Verdict.n
  /\ bad_encoding' = TRUE
  /\ oinput' = "closed"
  /\ in_end' = IF oinput = "open" THEN "invalid" ELSE in_end
  /\ pc' = "drain"
  /\ UNCHANGED <<params, rpos, buf, io_error, ooutput, out, ret, eof_mid_unit>>

\* lines 254-288.  The eprintln! slices data (the output bytes) at the input
\* index n: &data[n..data.len().min(n+6)] panics when n > data.len().
StepInvalid ==
  /\ pc = "transcode"
  /\ end > 0
  /\ Verdict.kind = "Invalid"
  /\ data' = Produced
  /\ IF Verdict.n > Len(Produced)
       THEN /\ pc' = "panic"
            /\ UNCHANGED <<diag, start, absolute_start, end, bad_encoding,
                           oinput, in_end>>
       ELSE /\ diag' = Append(diag, InvalidDiag)
            /\ start' = Verdict.n
            /\ absolute_start' = absolute_start + Verdict.n
            /\ end' = Verdict.n
            /\ bad_encoding' = TRUE
            /\ oinput' = "closed"
            /\ in_end' = IF oinput = "open" THEN "invalid" ELSE in_end
            /\ pc' = "drain"
  /\ UNCHANGED <<params, rpos, buf, io_error, ooutput, out, ret, eof_mid_unit>>

\* lines 292-296: write_all returns Ok(()), or the output handle is closed
\* and nothing is written
WriteOk ==
  /\ pc = "drain"
  /\ out' = IF ooutput = "open" THEN out \o data ELSE out
  /\ data' = <<>>
  /\ pc' = "loop"
  /\ UNCHANGED <<params, rpos, buf, start, end, absolute_start, io_error,
                 bad_encoding, oinput, ooutput, diag, ret, in_end, eof_mid_unit>>

\* write_all fails only on a write call, which it makes only while bytes
\* remain: the output has taken the first k bytes, k < Len(data)
WriteFails(k) ==
  /\ pc = "drain"
  /\ ooutput = "open"
  /\ k \in 0..(Len(data) - 1)
  /\ out' = out \o SubSeq(data, 1, k)
  /\ pc' = "result"

\* WriteBrokenPipe that closes the handle and goes on with the loop
WriteBrokenPipe_NoBreak ==
  /\ \E k \in 0..MaxLen * 2 :
       /\ pc = "drain"
       /\ ooutput = "open"
       /\ k \in 0..(Len(data) - 1)
       /\ out' = out \o SubSeq(data, 1, k)
  /\ pc' = "loop"
  /\ ooutput' = "closed"
  /\ UNCHANGED <<params, rpos, buf, start, end, absolute_start, io_error,
                 bad_encoding, oinput, data, diag, ret, in_end, eof_mid_unit>>

\* lines 297-301: Err, BrokenPipe
WriteBrokenPipe ==
  /\ \E k \in 0..MaxLen * 2 : WriteFails(k)
  /\ ooutput' = "closed"
  /\ UNCHANGED <<params, rpos, buf, start, end, absolute_start, io_error,
                 bad_encoding, oinput, data, diag, ret, in_end, eof_mid_unit>>

\* lines 302-306: any other Err
WriteError ==
  /\ \E k \in 0..MaxLen * 2 : WriteFails(k)
  /\ diag' = Append(diag, [kind |-> "output", off |-> NoOff, len |-> 0])
  /\ io_error' = TRUE
  /\ UNCHANGED <<params, rpos, buf, start, end, absolute_start, bad_encoding,
                 oinput, ooutput, data, ret, in_end, eof_mid_unit>>

\* ExitCode with the two faults tested in the other order
ExitCode_EncodingFirst ==
  IF bad_encoding THEN EXITCODE_ERROR_ENCODING
  ELSE IF io_error THEN EXITCODE_ERROR_IO
  ELSE EXITCODE_SUCCESS

\* lines 312-318
ExitCode ==
  IF io_error THEN EXITCODE_ERROR_IO
  ELSE IF bad_encoding THEN EXITCODE_ERROR_ENCODING
  ELSE EXITCODE_SUCCESS

Result ==
  /\ pc = "result"
  /\ ret' = ExitCode
  /\ pc' = "done"
  /\ UNCHANGED <<params, rpos, buf, start, end, absolute_start, io_error,
                 bad_encoding, oinput, ooutput, data, out, diag, in_end,
                 eof_mid_unit>>

Next ==
  \/ LoopHead
  \/ FillSkip
  \/ ReadData
  \/ ReadEof
  \/ ReadBrokenPipe
  \/ ReadError
  \/ NoData
  \/ StepComplete
  \/ StepIncomplete
  \/ StepInvalid
  \/ WriteOk
  \/ WriteBrokenPipe
  \/ WriteError
  \/ Result

Spec == Init /\ [][Next]_vars

\* A run in which neither the reader nor the writer fails: the reader
\* delivers the whole stream, then end-of-input.
NextOK ==
  \/ LoopHead
  \/ FillSkip
  \/ ReadData
  \/ ReadEof
  \/ NoData
  \/ StepComplete
  \/ StepIncomplete
  \/ StepInvalid
  \/ WriteOk
  \/ Result

\* The loop is sequential code: whenever it has a next step it takes it.
FairSpec == Init /\ [][NextOK]_vars /\ WF_vars(NextOK)

\* --------------------------------------------------------------- claims

\* the longest unit of the source encoding: four bytes of UTF-8, the six
\* bytes of a CESU-8 surrogate pair
LongestUnit == IF encode THEN 4 ELSE 6

ValidInput == Classify(input, encode, variant).kind = "Complete"

Returned == pc = "done"

Ended == pc \in {"done", "panic"}

IsPrefix(p, s) == Len(p) <= Len(s) /\ p = SubSeq(s, 1, Len(p))

DiagsOf(kind) == SelectSeq(diag, LAMBDA d : d.kind = kind)

\* C1: chunk-size independence.  For a valid input, no I/O fault and every
\* capacity that is at least the longest unit, the run returns success with
\* the output equal to the transform of the whole input.
C1_ChunkSizeIndependence ==
  (ValidInput /\ buf_size >= LongestUnit)
    => <>(Returned /\ ret = EXITCODE_SUCCESS
            /\ out = Transform(input, encode, variant))

\* A multi-byte unit is split across two reads: an Incomplete step has left
\* its first bytes in the window and the input is still open.
PartialKept == pc = "loop" /\ oinput = "open" /\ start < end

\* C2: boundary stress.  For a valid input, once a unit has been split
\* across two reads the window is refilled and the run ends with the output
\* of the single-read run, the transform of the whole input.
C2_BoundaryStress ==
  (ValidInput /\ buf_size >= LongestUnit)
    => [](PartialKept => <>(Returned /\ out = Transform(input, encode, variant)))

\* C3: termination.  For every capacity that is at least the longest unit,
\* and a reader and writer that do not fail, the loop eventually ends.
C3_Termination == (buf_size >= LongestUnit) => <>Ended

\* C4: truncation.  Once the input has ended (Ok(0), or BrokenPipe, which
\* the loop treats alike) with a partial unit in the window, the very next
\* step reports truncation and leaves the loop, and the status is encoding
\* fault, never success.
C4_Truncation ==
  eof_mid_unit =>
    /\ pc \in {"transcode", "result", "done"}
    /\ pc # "transcode" => (bad_encoding /\ DiagsOf("truncated") = <<Truncated>>)
    /\ Returned => ret = EXITCODE_ERROR_ENCODING

C4_Witness == Returned /\ eof_mid_unit /\ ret = EXITCODE_ERROR_ENCODING

\* the first fault of the whole stream
InputVerdict == Classify(input, encode, variant)

BadAt == InputVerdict.n

\* the valid units before the bad unit, and the bytes after it
Before == SubSeq(input, 1, BadAt)

After == SubSeq(input, BadAt + InputVerdict.el + 1, Len(input))

\* the bytes after the bad unit that the reader has delivered: they are in
\* the window when the Invalid step runs
TailRead == SubSeq(input, BadAt + InputVerdict.el + 1, rpos)

\* exactly one invalid unit, with valid units before and after it
OneBadUnit ==
  /\ InputVerdict.kind = "Invalid"
  /\ BadAt > 0
  /\ After # <<>>
  /\ Classify(After, encode, variant).kind = "Complete"

\* the Invalid step has run and every write was accepted
InvalidStepDrained ==
  /\ Returned
  /\ DiagsOf("invalid") # <<>>
  /\ ooutput = "open"
  /\ DiagsOf("output") = <<>>

\* C5 as stated: the output is the transform of the valid units before the
\* bad unit followed by the transform of the valid units after it that were
\* already in the window.
C5_SkipOnlyBadUnit ==
  (OneBadUnit /\ InvalidStepDrained)
    => out = Transform(Before, encode, variant) \o Transform(TailRead, encode, variant)

\* C5 amended: nothing at or after the bad unit is ever transcoded.  The
\* output is always a prefix of the transform of the valid units before the
\* bad unit, and it is all of it once the Invalid step has run and been
\* drained; the window is then empty and absolute_start is the bad unit's
\* offset.
C5_CutAtBadUnit ==
  OneBadUnit =>
    /\ IsPrefix(out, Transform(Before, encode, variant))
    /\ InvalidStepDrained =>
         /\ out = Transform(Before, encode, variant)
         /\ absolute_start = BadAt
         /\ end = 0

C5_Witness ==
  /\ OneBadUnit
  /\ InvalidStepDrained
  /\ out = Transform(Before, encode, variant)
  /\ Transform(TailRead, encode, variant) # <<>>

\* C6: fault offset.  Every Invalid step emits the invalid-unit diagnostic,
\* its offset is the number of stream bytes before the bad unit, and it is
\* the only such diagnostic of the run.
C6_FaultOffset ==
  [][(pc = "transcode" /\ end > 0 /\ Verdict.kind = "Invalid")
       => /\ DiagsOf("invalid") = <<>>
          /\ diag' = Append(diag, [kind |-> "invalid", off |-> BadAt,
                                   len |-> InputVerdict.el])]_vars

\* faults as the run's history shows them
IoFaultSeen == in_end = "error" \/ DiagsOf("output") # <<>>

EncodingFaultSeen == DiagsOf("truncated") # <<>> \/ DiagsOf("invalid") # <<>>

\* C7: result priority.  The returned status is I/O fault whenever an I/O
\* fault occurred, encoding fault exactly when only an encoding fault did,
\* success exactly when neither did.
C7_ResultPriority ==
  Returned =>
    /\ IoFaultSeen => ret = EXITCODE_ERROR_IO
    /\ ret = EXITCODE_ERROR_IO => io_error
    /\ ret = EXITCODE_ERROR_ENCODING <=> (EncodingFaultSeen /\ ~IoFaultSeen)
    /\ ret = EXITCODE_SUCCESS <=> (~EncodingFaultSeen /\ ~IoFaultSeen)

C7_Witness ==
  Returned /\ ret = EXITCODE_ERROR_IO /\ IoFaultSeen /\ EncodingFaultSeen

\* C8 as stated: after a write failed with BrokenPipe the loop ends with
\* status success or I/O fault.
C8_StatusAfterDisconnect ==
  ooutput = "closed" =>
    /\ pc \in {"result", "done"}
    /\ Returned => ret \in {EXITCODE_SUCCESS, EXITCODE_ERROR_IO}

\* C8 amended: from a state with the output handle closed the only step is
\* the return: nothing more is written, read or transcoded, the handle stays
\* closed, and the status is encoding fault if an Invalid step came before
\* the failed write, success otherwise.
C8_Disconnection ==
  [][ooutput = "closed"
       => /\ pc = "result"
          /\ pc' = "done"
          /\ out' = out
          /\ ooutput' = "closed"
          /\ ret' = IF DiagsOf("invalid") # <<>>
                      THEN EXITCODE_ERROR_ENCODING ELSE EXITCODE_SUCCESS]_vars

C8_Witness == Returned /\ ooutput = "closed" /\ ret = EXITCODE_ERROR_ENCODING

\* a step that calls read, a step that calls write
ReadStep == pc = "fill" /\ (rpos' # rpos \/ in_end' # in_end \/ pc' = "panic")

WriteStep == pc = "drain" /\ (out' # out \/ pc' = "result")

\* C9: closing a handle is one-way.  A closed handle is never open again, no
\* read is issued on a closed input, no write on a closed output, and no
\* take().expect() finds its handle already taken.
C9_OneWayClosure ==
  [][/\ oinput = "closed" => oinput' = "closed"
     /\ ooutput = "closed" => ooutput' = "closed"
     /\ ReadStep => oinput = "open"
     /\ WriteStep => ooutput = "open"
     /\ ~(pc \in {"fill", "drain"} /\ pc' = "panic")]_vars

C9_Witness == Returned /\ oinput = "closed" /\ ooutput = "closed"

\* C10: the buffer window.  0 <= start <= end <= capacity in every state.
C10_WindowInvariant ==
  /\ 0 <= start
  /\ start <= end
  /\ end <= buf_size
  /\ DOMAIN buf = 1..buf_size

C10_Witness == 0 < start /\ start < end /\ end = buf_size

\* a step of the Invalid branch, and one that got past its eprintln!
InvalidStep == pc = "transcode" /\ end > 0 /\ Verdict.kind = "Invalid"

InvalidStepDone == InvalidStep /\ pc' = "drain"

\* C11 as stated: an Invalid step advances start and absolute_start by
\* validPrefixLen + badUnitLen and keeps the bytes after the bad unit in the
\* window.
C11_AdvancePastBadUnit ==
  [][InvalidStepDone
       => /\ start' = start + Verdict.n + Verdict.el
          /\ absolute_start' = absolute_start + Verdict.n + Verdict.el
          /\ end' = end]_vars

\* C11 amended: an Invalid step advances start and absolute_start by
\* validPrefixLen only and cuts end to validPrefixLen as well: the window is
\* left empty, the bad unit and the bytes after it are dropped, and the
\* input handle is closed.  A step whose eprintln! panics advances nothing.
C11_InvalidStepAdvance ==
  [][InvalidStep
       => IF pc' = "drain"
            THEN /\ start' = start + Verdict.n
                 /\ absolute_start' = absolute_start + Verdict.n
                 /\ end' = Verdict.n
                 /\ start' = end'
                 /\ oinput' = "closed"
            ELSE /\ pc' = "panic"
                 /\ UNCHANGED <<start, end, absolute_start>>]_vars

\* after an Invalid step that dropped bytes read after the bad unit
C11_Witness ==
  /\ pc = "drain"
  /\ DiagsOf("invalid") # <<>>
  /\ start = end
  /\ absolute_start = BadAt
  /\ TailRead # <<>>

\* a step that invokes the codec on the window
TranscodeStep == pc = "transcode" /\ end > 0

\* C12: position bookkeeping.  absolute_start never decreases, a
\* classification step advances start and absolute_start by the same
\* amount, no other step moves absolute_start, and a Complete step advances
\* both by the whole window and leaves the window empty.
C12_PositionBookkeeping ==
  [][/\ absolute_start' >= absolute_start
     /\ TranscodeStep => absolute_start' - absolute_start = start' - start
     /\ ~TranscodeStep => absolute_start' = absolute_start
     /\ (TranscodeStep /\ Verdict.kind = "Complete")
          => /\ absolute_start' = absolute_start + (end - start)
             /\ start' = end'
             /\ end' = end]_vars

\* a Complete step on a chunk that is not the first
C12_Witness ==
  /\ pc = "drain"
  /\ start = end
  /\ DiagsOf("invalid") = <<>>
  /\ absolute_start > end

\* C13: fail-fast on an invalid unit.  An Invalid step hands the output of
\* the valid prefix to the drain and closes the input handle in that same
\* step, the drain that follows writes that output if the output is open, no
\* read is issued once the input handle is closed, and a run with an Invalid
\* step and no I/O fault returns encoding fault.
C13_FailFast ==
  [][/\ InvalidStep => /\ pc' = "drain"
                       /\ data' = Produced
                       /\ oinput' = "closed"
     /\ (pc = "drain" /\ DiagsOf("invalid") # <<>> /\ ooutput = "open"
           /\ pc' = "loop") => out' = out \o data
     /\ oinput = "closed" => ~ReadStep
     /\ (pc = "result" /\ DiagsOf("invalid") # <<>> /\ ~IoFaultSeen)
          => ret' = EXITCODE_ERROR_ENCODING]_vars

\* the bytes of the stream delivered by the reader and not yet consumed
Unconsumed == SubSeq(input, absolute_start + 1, rpos)

\* C14: refill policy and compaction.  A read is issued only with the input
\* handle open and end at most a quarter of the capacity; at every read and
\* every codec invocation start = 0 and the window holds exactly the
\* unconsumed bytes of the stream in order; a read leaves the window as it
\* is and puts the next bytes of the stream right after it, never more than
\* the free tail holds.
C14_RefillAndCompaction ==
  [][/\ ReadStep => /\ oinput = "open"
                    /\ end <= buf_size \div 4
                    /\ start = 0
                    /\ Window = Unconsumed
                    /\ rpos' - rpos <= buf_size - end
                    /\ end' = end + (rpos' - rpos)
                    /\ SubSeq(buf', 1, end) = Window
                    /\ SubSeq(buf', end + 1, end') = SubSeq(input, rpos + 1, rpos')
     /\ TranscodeStep => /\ start = 0
                         /\ Window = Unconsumed]_vars

\* a partial unit kept by compaction and completed by the next read
C14_Witness ==
  /\ pc = "transcode"
  /\ start = 0
  /\ absolute_start > 0
  /\ end >= 2
  /\ Window[1] >= 192
  /\ Verdict.kind = "Complete"

\* C15 as stated: once an I/O fault is recorded no read, no transcode step
\* and no write is performed, and the status returned is I/O fault.
C15_ImmediatelyFatal ==
  [][io_error => /\ ~ReadStep
                 /\ ~TranscodeStep
                 /\ ~WriteStep
                 /\ pc = "result" => ret' = EXITCODE_ERROR_IO]_vars

\* C15: I/O faults are fatal.  A failed write ends the loop in that step.  A
\* failed read closes the input handle and is followed by no read and no
\* write; the only transcode step that can follow it is the one that finds
\* the partial unit left in the window, reports the truncation and ends the
\* loop.  The status returned is I/O fault in both cases.
C15_IoFaultFatal ==
  [][/\ (WriteStep /\ io_error') => pc' = "result"
     /\ (ReadStep /\ io_error') => oinput' = "closed"
     /\ io_error' => pc' \notin {"fill", "drain", "panic"}
     /\ io_error => /\ ~ReadStep
                    /\ ~WriteStep
                    /\ out' = out
                    /\ TranscodeStep => /\ in_end = "error"
                                        /\ Verdict.kind = "Incomplete"
                                        /\ Verdict.n = 0
                                        /\ diag' = Append(diag, Truncated)
                                        /\ pc' = "result"
                    /\ pc = "result" => ret' = EXITCODE_ERROR_IO]_vars

\* a read fault with a partial unit in the window: one more transcode step
C15_Witness ==
  /\ Returned
  /\ in_end = "error"
  /\ DiagsOf("truncated") # <<>>
  /\ ret = EXITCODE_ERROR_IO

\* the bytes the reader delivered before the input handle was closed
Delivered == SubSeq(input, 1, rpos)

\* what a run that read Delivered and then end-of-input prints and returns
\* when no write fails
EofDiag ==
  IF Classify(Delivered, encode, variant).kind = "Complete" THEN <<>> ELSE <<Truncated>>

EofStatus ==
  IF Classify(Delivered, encode, variant).kind = "Complete"
    THEN EXITCODE_SUCCESS ELSE EXITCODE_ERROR_ENCODING

\* the read arms Ok(0) and Err(BrokenPipe)
EndOfInputStep == pc = "fill" /\ in_end' \in {"eof", "pipe"}

\* C16: input disconnection equals end-of-input.  A read that returns
\* BrokenPipe and a read that returns 0 bytes change the state of the loop in
\* the same way (the input handle is closed, nothing else); the output, the
\* diagnostics and the status of the run after either are the same function
\* of the bytes delivered before; and the disconnection alone records no I/O
\* fault.
C16_PipeIsEof ==
  [][/\ EndOfInputStep
          => /\ oinput' = "closed"
             /\ pc' = "transcode"
             /\ UNCHANGED <<rpos, buf, start, end, absolute_start, io_error,
                            bad_encoding, ooutput, data, out, diag, ret>>
     /\ (in_end' \in {"eof", "pipe"} /\ DiagsOf("output")' = <<>>)
          => /\ ~io_error'
             /\ pc' # "panic"
             /\ (pc' = "done" /\ ooutput' = "open")
                  => /\ out' = Transform(Delivered', encode', variant')
                     /\ diag' = EofDiag'
                     /\ ret' = EofStatus']_vars

\* the reader disconnects before the end of the stream; the run succeeds
C16_Witness ==
  /\ Returned
  /\ in_end = "pipe"
  /\ rpos < Len(input)
  /\ out # <<>>
  /\ ret = EXITCODE_SUCCESS

\* C17 as stated: with the output handle closed the loop still ends only at
\* its natural termination, the input handle closed and the window empty.
C17_ProcessingContinues ==
  (Returned /\ ooutput = "closed") => (oinput = "closed" /\ start = end)

\* C17 amended: the step that closes the output handle ends the loop, and
\* from then on nothing is read or classified: the input handle, the read
\* position, the window and the diagnostics stay as that step found them.
C17_DisconnectStops ==
  [][/\ (pc = "drain" /\ ooutput' = "closed")
          => /\ pc' = "result"
             /\ UNCHANGED <<oinput, rpos, buf, start, end, absolute_start, diag>>
     /\ ooutput = "closed"
          => /\ ~ReadStep
             /\ ~TranscodeStep
             /\ pc' = "done"
             /\ UNCHANGED <<oinput, rpos, buf, start, end, absolute_start, diag>>]_vars

\* the run returned with the input handle still open and bytes still unread
C17_Witness ==
  /\ Returned
  /\ ooutput = "closed"
  /\ oinput = "open"
  /\ rpos < Len(input)

\* C18: every terminal fault is surfaced.  Each recorded I/O fault has its
\* unconditional diagnostic, every diagnostic carries a stream offset, no
\* fault is reported twice, and a run that returns a status other than
\* success has printed at least one diagnostic.
C18_FaultsSurfaced ==
  /\ io_error => \E i \in DOMAIN diag : diag[i].kind \in {"input", "output"}
  /\ \A i \in DOMAIN diag : diag[i].off # NoOff
  /\ \A k \in {"input", "output", "truncated", "invalid"} : Len(DiagsOf(k)) <= 1
  /\ (Returned /\ ret # EXITCODE_SUCCESS) => diag # <<>>

\* the transform of the input consumed so far
Expected == Transform(SubSeq(input, 1, absolute_start), encode, variant)

\* C19: in-order drain with no dropped output.  The output is always a
\* prefix of the transform of the consumed input; it is the whole of it
\* whenever the codec is about to be invoked again, and together with the
\* bytes waiting in the drain step; when the loop has ended without a failed
\* write no bytes produced by the codec are left unwritten; and the
\* truncation branch leaves the loop with no bytes produced.
C19_InOrderDrain ==
  /\ IsPrefix(out, Expected)
  /\ pc \in {"loop", "fill", "transcode"} => out = Expected
  /\ pc = "drain" => out \o data = Expected
  /\ (Ended /\ ooutput = "open" /\ DiagsOf("output") = <<>>)
       => (data = <<>> /\ out = Expected)
  /\ DiagsOf("truncated") # <<>> => data = <<>>

\* C20: byte conservation.  As long as no Invalid step has occurred, the
\* bytes consumed plus the bytes in the window are the bytes the reader has
\* delivered, at the head of the loop and in every other state; a run that
\* returns success with the output never disconnected has consumed every
\* byte delivered, the whole stream if it read to end-of-input.
C20_ByteConservation ==
  /\ DiagsOf("invalid") = <<>> => absolute_start + (end - start) = rpos
  /\ (Returned /\ ret = EXITCODE_SUCCESS /\ ooutput = "open")
       => /\ absolute_start = rpos
          /\ in_end = "eof" => absolute_start = Len(input)

\* a successful run over a stream longer than the buffer, a unit split
\* between two reads
C20_Witness ==
  /\ Returned
  /\ ret = EXITCODE_SUCCESS
  /\ ooutput = "open"
  /\ in_end = "eof"
  /\ absolute_start = Len(input)
  /\ Len(input) > buf_size
  /\ \E i \in DOMAIN input : input[i] >= 192
  /\ Len(out) # Len(input)

====
